---- MODULE Spec2Model ----
(***************************************************************************)
(* GaussianLib: Matrix<T,Rows,Cols>, SparseMatrix4T<T>, Determinant and    *)
(* Inverse.  A matrix is its flat buffer m_ (a function on 0..elements-1), *)
(* read and written through operator()(row, col) under the build's storage *)
(* layout.  The scalar type T is modelled by exact rationals <<num, den>>  *)
(* (den > 0, lowest terms), so that T(1)/d and d*x are computed, not       *)
(* assumed.                                                                *)
(***************************************************************************)
EXTENDS Integers, Sequences, FiniteSets, TLC

VARIABLES
    GS_MATRIX_COLUMN_MAJOR, \* build flag: Matrix stores column-major
    GS_ROW_MAJOR_STORAGE,   \* build flag: SparseMatrix4T stores row-major
    GS_ROW_VECTORS,         \* build flag: SparseMatrix4T is 4 rows x 3 columns
    GS_ENABLE_AUTO_INIT,    \* build flag tested by the default constructors
    kind,                   \* static type of the objects: "M1".."M5" (NxN),
                            \* "M23", "M32", "S" (SparseMatrix4T), "V2"
    rkind,                  \* static type of rhs where it is not that of m
    m,                      \* first operand (m / lhs / *this): flat buffer
    rhs,                    \* second operand of a product: flat buffer;
                            \* for operator <<, the values streamed
    out,                    \* output object (inv / result): flat buffer
    old,                    \* the buffers m and out as they were before the call
    ret,                    \* value returned by the call
    asserts,                \* "passed": every index of the call was in range;
                            \* "stopped": a failed GS_ASSERT ended the program;
                            \* "ignored": an index out of range was used
    pc,                     \* "build", or the name of the call that was made
    edits                   \* number of element writes made while building

vars == <<GS_MATRIX_COLUMN_MAJOR, GS_ROW_MAJOR_STORAGE, GS_ROW_VECTORS,
          GS_ENABLE_AUTO_INIT,
          kind, rkind, m, rhs, out, old, ret, asserts, pc, edits>>

flags == <<GS_MATRIX_COLUMN_MAJOR, GS_ROW_MAJOR_STORAGE, GS_ROW_VECTORS,
           GS_ENABLE_AUTO_INIT>>

(***************************************************************************)
(* Bounds of the model.                                                    *)
(***************************************************************************)
\* element writes applied to the base operands before a call
MaxEdits == 1

\* values an element write may store
Vals == {-1, 0, 2}

(***************************************************************************)
(* The scalar type T: exact rationals.                                     *)
(***************************************************************************)
Abs(x) == IF x < 0 THEN -x ELSE x

RECURSIVE GCD(_, _)
GCD(a, b) == IF b = 0 THEN a ELSE GCD(b, a % b)

\* the rational n/d in lowest terms with a positive denominator (d # 0)
Rat(n, d) ==
    LET g == GCD(Abs(n), Abs(d))
        s == IF d < 0 THEN -1 ELSE 1
    IN  <<(s * n) \div g, (s * d) \div g>>

\* T(i) for an integer literal i
T(i) == <<i, 1>>

a ++ b == IF a[2] = 1 /\ b[2] = 1 THEN <<a[1] + b[1], 1>>
          ELSE Rat(a[1] * b[2] + b[1] * a[2], a[2] * b[2])

RNeg(a) == <<-a[1], a[2]>>

a -- b == a ++ RNeg(b)

a ** b == IF a[2] = 1 /\ b[2] = 1 THEN <<a[1] * b[1], 1>>
          ELSE Rat(a[1] * b[1], a[2] * b[2])

\* a / b for b # 0
RDiv(a, b) == Rat(a[1] * b[2], a[2] * b[1])

(***************************************************************************)
(* Shapes and element access.                                              *)
(***************************************************************************)
Kinds == {"M2", "M3", "M4", "M5", "S"}

\* SparseMatrix4T::rowsSparse, columnsSparse
rowsSparse == IF GS_ROW_VECTORS THEN 4 ELSE 3

columnsSparse == IF GS_ROW_VECTORS THEN 3 ELSE 4

\* Rows and Cols of the object of static type k
Rows(k) ==
    CASE k = "M2" -> 2 [] k = "M3" -> 3 [] k = "M4" -> 4 [] k = "M5" -> 5
      [] k = "S" -> rowsSparse
      [] k = "M1" -> 1 [] k = "M23" -> 2 [] k = "M32" -> 3

Cols(k) ==
    CASE k = "M2" -> 2 [] k = "M3" -> 3 [] k = "M4" -> 4 [] k = "M5" -> 5
      [] k = "S" -> columnsSparse
      [] k = "M1" -> 1 [] k = "M23" -> 3 [] k = "M32" -> 2

\* number of stored elements: Rows*Cols, elementsSparse
Elements(k) == Rows(k) * Cols(k)

\* the GS_ASSERTs of operator()
InRange(k, row, col) == row < Rows(k) /\ col < Cols(k)

\* an accessor that ignores the storage order of the build
Index_RowMajorAlways(k, row, col) == row * Cols(k) + col

\* the flat index operator() computes for (row, col)
Index(k, row, col) ==
    IF k = "S"
    THEN IF GS_ROW_MAJOR_STORAGE THEN row * columnsSparse + col
                                 ELSE col * rowsSparse + row
    ELSE IF GS_MATRIX_COLUMN_MAJOR THEN col * Rows(k) + row
                                   ELSE row * Cols(k) + col

\* operator()(row, col) const, for an index the assertions accept
Get(k, buf, row, col) == buf[Index(k, row, col)]

\* operator()(row, col) = v, for an index the assertions accept
Put(k, buf, row, col, v) == [buf EXCEPT ![Index(k, row, col)] = v]

\* the assignments ws = << <<row, col, v>>, ... >> made in order
RECURSIVE WriteAll(_, _, _)
WriteAll(k, buf, ws) ==
    IF ws = <<>> THEN buf
    ELSE WriteAll(k, Put(k, buf, ws[1][1], ws[1][2], ws[1][3]), Tail(ws))

\* Reset(): every element T(0)
Reset(k) == [i \in 0 .. Elements(k) - 1 |-> T(0)]

\* LoadIdentity(): (r, c) = (r == c ? 1 : 0) for every stored (r, c)
LoadIdentity(k) ==
    [i \in 0 .. Elements(k) - 1 |->
        LET p == CHOOSE q \in (0 .. Rows(k) - 1) \X (0 .. Cols(k) - 1) :
                    Index(k, q[1], q[2]) = i
        IN  IF p[1] = p[2] THEN T(1) ELSE T(0)]

\* operator * (Matrix<Rows,K>, Matrix<K,Cols>): the accumulation of one entry
RECURSIVE Accumulate(_, _, _, _, _, _, _, _)
Accumulate(kl, lhsBuf, kr, rhsBuf, r, c, i, n) ==
    IF i = n THEN T(0)
    ELSE Accumulate(kl, lhsBuf, kr, rhsBuf, r, c, i, n - 1)
           ++ (Get(kl, lhsBuf, r, n - 1) ** Get(kr, rhsBuf, n - 1, c))

\* operator * (Matrix, Matrix) for two square matrices of type k
MatMul(k, lhsBuf, rhsBuf) ==
    [i \in 0 .. Elements(k) - 1 |->
        LET p == CHOOSE q \in (0 .. Rows(k) - 1) \X (0 .. Cols(k) - 1) :
                    Index(k, q[1], q[2]) = i
        IN  Accumulate(k, lhsBuf, k, rhsBuf, p[1], p[2], 0, Cols(k))]

(***************************************************************************)
(* Determinant (Determinant.h), closed forms.                              *)
(***************************************************************************)
Determinant2(mm) ==
    LET e(r, c) == Get("M2", mm, r, c)
    IN  e(0, 0) ** e(1, 1) -- e(0, 1) ** e(1, 0)

Determinant3(mm) ==
    LET e(r, c) == Get("M3", mm, r, c)
    IN  (e(0, 0) ** (e(1, 1) ** e(2, 2) -- e(2, 1) ** e(1, 2))
          -- e(0, 1) ** (e(1, 0) ** e(2, 2) -- e(2, 0) ** e(1, 2)))
          ++ e(0, 2) ** (e(1, 0) ** e(2, 1) -- e(2, 0) ** e(1, 1))

\* the 3x3 minor of a 4x4 matrix on rows 1..3 and columns c0 < c1 < c2
Minor4(mm, c0, c1, c2) ==
    LET e(r, c) == Get("M4", mm, r, c)
    IN  (e(1, c0) ** (e(2, c1) ** e(3, c2) -- e(3, c1) ** e(2, c2))
          -- e(1, c1) ** (e(2, c0) ** e(3, c2) -- e(3, c0) ** e(2, c2)))
          ++ e(1, c2) ** (e(2, c0) ** e(3, c1) -- e(3, c0) ** e(2, c1))

\* cofactor expansion along row 0
Determinant4(mm) ==
    LET e(r, c) == Get("M4", mm, r, c)
    IN  ((e(0, 0) ** Minor4(mm, 1, 2, 3) -- e(0, 1) ** Minor4(mm, 0, 2, 3))
          ++ e(0, 2) ** Minor4(mm, 0, 1, 3)) -- e(0, 3) ** Minor4(mm, 0, 1, 2)

\* the 3x3 expansion over the upper-left block of a SparseMatrix4T
DeterminantS(mm) ==
    LET e(r, c) == Get("S", mm, r, c)
    IN  (e(0, 0) ** (e(1, 1) ** e(2, 2) -- e(2, 1) ** e(1, 2))
          -- e(0, 1) ** (e(1, 0) ** e(2, 2) -- e(2, 0) ** e(1, 2)))
          ++ e(0, 2) ** (e(1, 0) ** e(2, 1) -- e(2, 0) ** e(1, 1))

(***************************************************************************)
(* Inverse (Inverse.h).  Each overload yields [ret, inv]: the value        *)
(* returned and the output object after the call.                          *)
(***************************************************************************)
\* a generic overload that accepts the identity
InverseN_Identity(inv, mm) ==
    IF mm = LoadIdentity("M5") THEN [ret |-> TRUE, inv |-> mm]
    ELSE [ret |-> FALSE, inv |-> inv]

\* generic NxN overload: "return false;//!!!"
InverseN(inv, mm) == [ret |-> FALSE, inv |-> inv]

\* the four assignments of the 2x2 overload, d being the inverse determinant
Inverse2Writes(d, mm) ==
    LET e(r, c) == Get("M2", mm, r, c)
    IN <<
       <<0, 0, d ** (e(1, 1))>>,
       <<0, 1, d ** RNeg(e(0, 1))>>,
       <<1, 0, d ** RNeg(e(1, 0))>>,
       <<1, 1, d ** (e(0, 0))>>
       >>

\* the 2x2 overload with the diagonal entries left in place
Inverse2_DiagonalKept(inv, mm) ==
    LET det == Determinant2(mm)
        d == RDiv(T(1), det)
        e(r, c) == Get("M2", mm, r, c)
    IN  IF det = T(0) THEN [ret |-> FALSE, inv |-> inv]
        ELSE [ret |-> TRUE,
              inv |-> WriteAll("M2", inv,
                        << <<0, 0, d ** e(0, 0)>>, <<0, 1, d ** RNeg(e(0, 1))>>,
                           <<1, 0, d ** RNeg(e(1, 0))>>, <<1, 1, d ** e(1, 1)>> >>)]

Inverse2(inv, mm) ==
    LET det == Determinant2(mm)
    IN  IF det = T(0) THEN [ret |-> FALSE, inv |-> inv]
        ELSE [ret |-> TRUE,
              inv |-> WriteAll("M2", inv, Inverse2Writes(RDiv(T(1), det), mm))]

\* the nine assignments of the 3x3 overload
Inverse3Writes(d, mm) ==
    LET e(r, c) == Get("M3", mm, r, c)
    IN <<
       <<0, 0, d ** (e(1, 1) ** e(2, 2) -- e(2, 1) ** e(1, 2))>>,
       <<1, 0, d ** (e(2, 0) ** e(1, 2) -- e(1, 0) ** e(2, 2))>>,
       <<2, 0, d ** (e(1, 0) ** e(2, 1) -- e(2, 0) ** e(1, 1))>>,
       <<0, 1, d ** (e(1, 1) ** e(0, 2) -- e(0, 1) ** e(2, 2))>>,
       <<1, 1, d ** (e(0, 0) ** e(2, 2) -- e(2, 0) ** e(0, 2))>>,
       <<2, 1, d ** (e(0, 0) ** e(1, 1) -- e(1, 0) ** e(0, 1))>>,
       <<0, 2, d ** (e(0, 1) ** e(1, 2) -- e(1, 1) ** e(0, 2))>>,
       <<1, 2, d ** (e(1, 0) ** e(0, 2) -- e(0, 0) ** e(1, 2))>>,
       <<2, 2, d ** (e(0, 0) ** e(1, 1) -- e(1, 0) ** e(0, 1))>>
       >>

\* the 3x3 overload clearing the output before it reports failure
Inverse3_ClearsOnFailure(inv, mm) ==
    LET det == Determinant3(mm)
    IN  IF det = T(0) THEN [ret |-> FALSE, inv |-> Reset("M3")]
        ELSE [ret |-> TRUE,
              inv |-> WriteAll("M3", inv, Inverse3Writes(RDiv(T(1), det), mm))]

Inverse3(inv, mm) ==
    LET det == Determinant3(mm)
    IN  IF det = T(0) THEN [ret |-> FALSE, inv |-> inv]
        ELSE [ret |-> TRUE,
              inv |-> WriteAll("M3", inv, Inverse3Writes(RDiv(T(1), det), mm))]

\* the sixteen assignments of the 4x4 overload
Inverse4Writes(d, mm) ==
    LET e(r, c) == Get("M4", mm, r, c)
    IN <<
       <<0, 0, d ** (e(1, 1) ** (e(2, 2) ** e(3, 3) -- e(3, 2) ** e(2, 3)) ++ e(2, 1) ** (e(3, 2) ** e(1, 3) -- e(1, 2) ** e(3, 3)) ++ e(3, 1) ** (e(1, 2) ** e(2, 3) -- e(2, 2) ** e(1, 3)))>>,
       <<1, 0, d ** (e(1, 2) ** (e(2, 0) ** e(3, 3) -- e(3, 0) ** e(2, 3)) ++ e(2, 2) ** (e(3, 0) ** e(1, 3) -- e(1, 0) ** e(3, 3)) ++ e(3, 2) ** (e(1, 0) ** e(2, 3) -- e(2, 0) ** e(1, 3)))>>,
       <<2, 0, d ** (e(1, 3) ** (e(2, 0) ** e(3, 1) -- e(3, 0) ** e(2, 1)) ++ e(2, 3) ** (e(3, 0) ** e(1, 1) -- e(1, 0) ** e(3, 1)) ++ e(3, 3) ** (e(1, 0) ** e(2, 1) -- e(2, 0) ** e(1, 1)))>>,
       <<3, 0, d ** (e(1, 0) ** (e(3, 1) ** e(2, 2) -- e(2, 1) ** e(3, 2)) ++ e(2, 0) ** (e(1, 1) ** e(3, 2) -- e(3, 1) ** e(1, 2)) ++ e(3, 0) ** (e(2, 1) ** e(1, 2) -- e(1, 1) ** e(2, 2)))>>,
       <<0, 1, d ** (e(2, 1) ** (e(0, 2) ** e(3, 3) -- e(3, 2) ** e(0, 3)) ++ e(3, 1) ** (e(2, 2) ** e(0, 3) -- e(0, 2) ** e(2, 3)) ++ e(0, 1) ** (e(3, 2) ** e(2, 3) -- e(2, 2) ** e(3, 3)))>>,
       <<1, 1, d ** (e(2, 2) ** (e(0, 0) ** e(3, 3) -- e(3, 0) ** e(0, 3)) ++ e(3, 2) ** (e(2, 0) ** e(0, 3) -- e(0, 0) ** e(2, 3)) ++ e(0, 2) ** (e(3, 0) ** e(2, 3) -- e(2, 0) ** e(3, 3)))>>,
       <<2, 1, d ** (e(2, 3) ** (e(0, 0) ** e(3, 1) -- e(3, 0) ** e(0, 1)) ++ e(3, 3) ** (e(2, 0) ** e(0, 1) -- e(0, 0) ** e(2, 1)) ++ e(0, 3) ** (e(3, 0) ** e(2, 1) -- e(2, 0) ** e(3, 1)))>>,
       <<3, 1, d ** (e(2, 0) ** (e(3, 1) ** e(0, 2) -- e(0, 1) ** e(3, 2)) ++ e(3, 0) ** (e(0, 1) ** e(2, 2) -- e(2, 1) ** e(0, 2)) ++ e(0, 0) ** (e(2, 1) ** e(3, 2) -- e(3, 1) ** e(2, 2)))>>,
       <<0, 2, d ** (e(3, 1) ** (e(0, 2) ** e(1, 3) -- e(1, 2) ** e(0, 3)) ++ e(0, 1) ** (e(1, 2) ** e(3, 3) -- e(3, 2) ** e(1, 3)) ++ e(1, 1) ** (e(3, 2) ** e(0, 3) -- e(0, 2) ** e(3, 3)))>>,
       <<1, 2, d ** (e(3, 2) ** (e(0, 0) ** e(1, 3) -- e(1, 0) ** e(0, 3)) ++ e(0, 2) ** (e(1, 0) ** e(3, 3) -- e(3, 0) ** e(1, 3)) ++ e(1, 2) ** (e(3, 0) ** e(0, 3) -- e(0, 0) ** e(3, 3)))>>,
       <<2, 2, d ** (e(3, 3) ** (e(0, 0) ** e(1, 1) -- e(1, 0) ** e(0, 1)) ++ e(0, 3) ** (e(1, 0) ** e(3, 1) -- e(3, 0) ** e(1, 1)) ++ e(1, 3) ** (e(3, 0) ** e(0, 1) -- e(0, 0) ** e(3, 1)))>>,
       <<3, 2, d ** (e(3, 0) ** (e(1, 1) ** e(0, 2) -- e(0, 1) ** e(1, 2)) ++ e(0, 0) ** (e(3, 1) ** e(1, 2) -- e(1, 1) ** e(3, 2)) ++ e(1, 0) ** (e(0, 1) ** e(3, 2) -- e(3, 1) ** e(0, 2)))>>,
       <<0, 3, d ** (e(0, 1) ** (e(2, 2) ** e(1, 3) -- e(1, 2) ** e(2, 3)) ++ e(1, 1) ** (e(0, 2) ** e(2, 3) -- e(2, 2) ** e(0, 3)) ++ e(2, 1) ** (e(1, 2) ** e(0, 3) -- e(0, 2) ** e(1, 3)))>>,
       <<1, 3, d ** (e(0, 2) ** (e(2, 0) ** e(1, 3) -- e(1, 0) ** e(2, 3)) ++ e(1, 2) ** (e(0, 0) ** e(2, 3) -- e(2, 0) ** e(0, 3)) ++ e(2, 2) ** (e(1, 0) ** e(0, 3) -- e(0, 0) ** e(1, 3)))>>,
       <<2, 3, d ** (e(0, 3) ** (e(2, 0) ** e(1, 1) -- e(1, 0) ** e(2, 1)) ++ e(1, 3) ** (e(0, 0) ** e(2, 1) -- e(2, 0) ** e(0, 1)) ++ e(2, 3) ** (e(1, 0) ** e(0, 1) -- e(0, 0) ** e(1, 1)))>>,
       <<3, 3, d ** (e(0, 0) ** (e(1, 1) ** e(2, 2) -- e(2, 1) ** e(1, 2)) ++ e(1, 0) ** (e(2, 1) ** e(0, 2) -- e(0, 1) ** e(2, 2)) ++ e(2, 0) ** (e(0, 1) ** e(1, 2) -- e(1, 1) ** e(0, 2)))>>
       >>

\* the 4x4 overload storing each cofactor at (row, col) instead of (col, row)
Inverse4_Untransposed(inv, mm) ==
    LET det == Determinant4(mm)
        ws == Inverse4Writes(RDiv(T(1), det), mm)
    IN  IF det = T(0) THEN [ret |-> FALSE, inv |-> inv]
        ELSE [ret |-> TRUE,
              inv |-> WriteAll("M4", inv,
                        [n \in 1 .. Len(ws) |-> <<ws[n][2], ws[n][1], ws[n][3]>>])]

Inverse4(inv, mm) ==
    LET det == Determinant4(mm)
    IN  IF det = T(0) THEN [ret |-> FALSE, inv |-> inv]
        ELSE [ret |-> TRUE,
              inv |-> WriteAll("M4", inv, Inverse4Writes(RDiv(T(1), det), mm))]

\* overload resolution of Inverse(inv, m) for the dense types
InverseDense(k, inv, mm) ==
    CASE k = "M2" -> Inverse2(inv, mm)
      [] k = "M3" -> Inverse3(inv, mm)
      [] k = "M4" -> Inverse4(inv, mm)
      [] OTHER -> InverseN(inv, mm)

(***************************************************************************)
(* SparseMatrix4T: Inverse, MakeInverse, operator *, operator *=.          *)
(***************************************************************************)
\* the element an access lands on when its index is not asserted: the flat
\* index inside the buffer, or the value u that lies behind the object
RawGet(buf, i, u) == IF i \in DOMAIN buf THEN buf[i] ELSE u

\* a write lands in the buffer, or outside the object
RawPut(buf, i, v) == IF i \in DOMAIN buf THEN [buf EXCEPT ![i] = v] ELSE buf

RECURSIVE WriteAllRaw(_, _)
WriteAllRaw(buf, ws) ==
    IF ws = <<>> THEN buf
    ELSE WriteAllRaw(RawPut(buf, Index("S", ws[1][1], ws[1][2]), ws[1][3]),
                     Tail(ws))

\* the overload with the translation negated but not taken through the
\* inverse of the linear block
InverseSWrites_TranslationNegated(d, mm, u) ==
    LET e(r, c) == RawGet(mm, Index("S", r, c), u)
    IN <<
       <<0, 0, d ** (e(1, 1) ** e(2, 2) ++ e(2, 1) ** RNeg(e(1, 2)))>>,
       <<1, 0, d ** (e(1, 2) ** e(2, 0) ++ e(2, 2) ** RNeg(e(1, 0)))>>,
       <<2, 0, d ** (e(1, 0) ** e(2, 1) -- e(2, 0) ** e(1, 1))>>,
       <<0, 1, d ** (e(2, 1) ** e(0, 2) ++ e(0, 1) ** RNeg(e(2, 2)))>>,
       <<1, 1, d ** (e(2, 2) ** e(0, 0) ++ e(0, 2) ** RNeg(e(2, 0)))>>,
       <<2, 1, d ** (e(2, 0) ** e(0, 1) -- e(0, 0) ** e(2, 1))>>,
       <<0, 2, d ** (e(0, 1) ** e(1, 2) ++ e(1, 1) ** RNeg(e(0, 2)))>>,
       <<1, 2, d ** (e(0, 2) ** e(1, 0) ++ e(1, 2) ** RNeg(e(0, 0)))>>,
       <<2, 2, d ** (e(0, 0) ** e(1, 1) -- e(1, 0) ** e(0, 1))>>,
       <<0, 3, RNeg(e(0, 3))>>,
       <<1, 3, RNeg(e(1, 3))>>,
       <<2, 3, RNeg(e(2, 3))>>
       >>

\* the twelve assignments of the SparseMatrix4T overload
InverseSWrites(d, mm, u) ==
    LET e(r, c) == RawGet(mm, Index("S", r, c), u)
    IN <<
       <<0, 0, d ** (e(1, 1) ** e(2, 2) ++ e(2, 1) ** RNeg(e(1, 2)))>>,
       <<1, 0, d ** (e(1, 2) ** e(2, 0) ++ e(2, 2) ** RNeg(e(1, 0)))>>,
       <<2, 0, d ** (e(1, 0) ** e(2, 1) -- e(2, 0) ** e(1, 1))>>,
       <<0, 1, d ** (e(2, 1) ** e(0, 2) ++ e(0, 1) ** RNeg(e(2, 2)))>>,
       <<1, 1, d ** (e(2, 2) ** e(0, 0) ++ e(0, 2) ** RNeg(e(2, 0)))>>,
       <<2, 1, d ** (e(2, 0) ** e(0, 1) -- e(0, 0) ** e(2, 1))>>,
       <<0, 2, d ** (e(0, 1) ** e(1, 2) ++ e(1, 1) ** RNeg(e(0, 2)))>>,
       <<1, 2, d ** (e(0, 2) ** e(1, 0) ++ e(1, 2) ** RNeg(e(0, 0)))>>,
       <<2, 2, d ** (e(0, 0) ** e(1, 1) -- e(1, 0) ** e(0, 1))>>,
       <<0, 3, d ** (e(0, 1) ** (e(2, 2) ** e(1, 3) -- e(1, 2) ** e(2, 3)) ++ e(1, 1) ** (e(0, 2) ** e(2, 3) -- e(2, 2) ** e(0, 3)) ++ e(2, 1) ** (e(1, 2) ** e(0, 3) -- e(0, 2) ** e(1, 3)))>>,
       <<1, 3, d ** (e(0, 2) ** (e(2, 0) ** e(1, 3) -- e(1, 0) ** e(2, 3)) ++ e(1, 2) ** (e(0, 0) ** e(2, 3) -- e(2, 0) ** e(0, 3)) ++ e(2, 2) ** (e(1, 0) ** e(0, 3) -- e(0, 0) ** e(1, 3)))>>,
       <<2, 3, d ** (e(0, 3) ** (e(2, 0) ** e(1, 1) -- e(1, 0) ** e(2, 1)) ++ e(1, 3) ** (e(0, 0) ** e(2, 1) -- e(2, 0) ** e(0, 1)) ++ e(2, 3) ** (e(1, 0) ** e(0, 1) -- e(0, 0) ** e(1, 1)))>>
       >>

\* the assignments made before the first one whose index an assertion rejects
RECURSIVE Asserted(_)
Asserted(ws) ==
    IF ws = <<>> \/ ~InRange("S", ws[1][1], ws[1][2]) THEN <<>>
    ELSE <<ws[1]>> \o Asserted(Tail(ws))

\* every (row, col) the overload indexes has row <= 2 and col <= 3
InverseSInRange == InRange("S", 2, 3)

\* Inverse(SparseMatrix4T& inv, const SparseMatrix4T& m); u is what a read
\* behind the object yields, abort is whether a failed GS_ASSERT stops the
\* program (the call then never returns, and ret is no value)
InverseS(inv, mm, u, abort) ==
    LET det == DeterminantS(mm)
        ws == InverseSWrites(RDiv(T(1), det), mm, u)
    IN  IF det = T(0)
        THEN [ret |-> FALSE, inv |-> inv, asserts |-> "passed"]
        ELSE IF InverseSInRange
        THEN [ret |-> TRUE, inv |-> WriteAllRaw(inv, ws), asserts |-> "passed"]
        ELSE IF abort
        THEN [ret |-> FALSE, inv |-> WriteAllRaw(inv, Asserted(ws)),
              asserts |-> "stopped"]
        ELSE [ret |-> TRUE, inv |-> WriteAllRaw(inv, ws), asserts |-> "ignored"]

\* SparseMatrix4T::MakeInverse(): in{ *this }; return Gs::Inverse(*this, in)
MakeInverse(self, u, abort) == InverseS(self, self, u, abort)

\* Inverse() inverting into a default-constructed object instead of a copy
InverseMember_FromDefault(self, u, abort) == InverseS(Reset("S"), self, u, abort)

\* SparseMatrix4T::Inverse(): inv{ *this }; inv.MakeInverse(); return inv
InverseMember(self, u, abort) == MakeInverse(self, u, abort)

\* the inner product over the stored dimension, rowsSparse or columnsSparse
SparseInner == IF GS_ROW_VECTORS THEN columnsSparse ELSE rowsSparse

\* the term of the implicit 1 added to every entry
SparseCorrected_Every(r, c) == TRUE

\* whether (r, c) receives the term of the implicit 1
SparseCorrected(r, c) ==
    IF GS_ROW_VECTORS THEN r = rowsSparse - 1 ELSE c = columnsSparse - 1

\* the term of the implicit 1 left out
SparseCorrection_Omitted(lhsBuf, rhsBuf, r, c) == T(0)

\* the term added for the implicit 1
SparseCorrection(lhsBuf, rhsBuf, r, c) ==
    IF GS_ROW_VECTORS THEN Get("S", lhsBuf, rowsSparse - 1, c)
                      ELSE Get("S", lhsBuf, r, columnsSparse - 1)

\* operator * (SparseMatrix4T, SparseMatrix4T)
SparseMul(lhsBuf, rhsBuf) ==
    [i \in 0 .. Elements("S") - 1 |->
        LET p == CHOOSE q \in (0 .. rowsSparse - 1) \X (0 .. columnsSparse - 1) :
                    Index("S", q[1], q[2]) = i
            acc == Accumulate("S", lhsBuf, "S", rhsBuf, p[1], p[2], 0, SparseInner)
        IN  IF SparseCorrected(p[1], p[2])
            THEN acc ++ SparseCorrection(lhsBuf, rhsBuf, p[1], p[2])
            ELSE acc]

\* SparseMatrix4T::operator *= : *this = (*this * rhs)
MulAssign(self, rhsBuf) == SparseMul(self, rhsBuf)

(***************************************************************************)
(* Construction of the operands.                                           *)
(***************************************************************************)
\* an initializer that stores the n-th value at flat index n
RECURSIVE Initializer_StorageOrder(_, _, _, _)
Initializer_StorageOrder(k, buf, values, element) ==
    IF element = Len(values) THEN buf
    ELSE Initializer_StorageOrder(k,
                     [buf EXCEPT ![element] = T(values[element + 1])],
                     values, element + 1)

\* Initializer::operator , : the n-th value goes to (n / Cols, n % Cols);
\* the twelve-argument constructor of SparseMatrix4T stores the same way
RECURSIVE Initializer(_, _, _, _)
Initializer(k, buf, values, element) ==
    IF element = Len(values) THEN buf
    ELSE Initializer(k,
                     Put(k, buf, element \div Cols(k), element % Cols(k),
                         T(values[element + 1])),
                     values, element + 1)

\* the n-th value (0-based) of a stream has a target the GS_ASSERTs of
\* operator() accept
TargetInRange(k, n) == InRange(k, n \div Cols(k), n % Cols(k))

\* the number of values of a stream, from the n-th on, stored before the
\* first one whose target is rejected
RECURSIVE AcceptedFrom(_, _, _)
AcceptedFrom(k, values, n) ==
    IF n = Len(values) \/ ~TargetInRange(k, n) THEN n
    ELSE AcceptedFrom(k, values, n + 1)

\* the number of leading values of a stream whose targets are accepted
Accepted(k, values) == AcceptedFrom(k, values, 0)

\* Initializer::operator , with the assertions of operator() not stopping:
\* the value goes to the flat index computed from (n / Cols, n % Cols)
RECURSIVE InitializerRaw(_, _, _, _)
InitializerRaw(k, buf, values, element) ==
    IF element = Len(values) THEN buf
    ELSE InitializerRaw(k,
                        RawPut(buf,
                               Index(k, element \div Cols(k), element % Cols(k)),
                               T(values[element + 1])),
                        values, element + 1)

\* a stream whose values are all stored with no index looked at
StreamInto_Unchecked(k, buf, values, abort) ==
    [m |-> InitializerRaw(k, buf, values, 0), asserts |-> "passed"]

\* matrix << values[1], values[2], ... : every value passes through
\* operator(); abort is whether a failed GS_ASSERT stops the program
StreamInto(k, buf, values, abort) ==
    LET fits == Accepted(k, values)
        head == Initializer(k, buf, SubSeq(values, 1, fits), 0)
    IN  IF fits = Len(values) THEN [m |-> head, asserts |-> "passed"]
        ELSE IF abort THEN [m |-> head, asserts |-> "stopped"]
        ELSE [m |-> InitializerRaw(k, head, values, fits),
              asserts |-> "ignored"]

\* the object built from its values in row order
FromRows(k, values) == Initializer(k, Reset(k), values, 0)

\* an affine matrix given by its linear block (row order) and translation,
\* in the order of the constructor of the active vector convention
Affine(lin, t) ==
    IF GS_ROW_VECTORS
    THEN FromRows("S", <<lin[1], lin[4], lin[7],
                         lin[2], lin[5], lin[8],
                         lin[3], lin[6], lin[9],
                         t[1], t[2], t[3]>>)
    ELSE FromRows("S", <<lin[1], lin[2], lin[3], t[1],
                         lin[4], lin[5], lin[6], t[2],
                         lin[7], lin[8], lin[9], t[3]>>)

Translation(t) == Affine(<<1, 0, 0, 0, 1, 0, 0, 0, 1>>, t)

\* the operands the runs start from: the identity, matrices with no zero
\* minor pattern, and singular ones (a zero row, two equal rows)
Bases(k) ==
    CASE k = "M2" -> {LoadIdentity(k), FromRows(k, <<2, 0, 0, 2>>),
                      FromRows(k, <<1, 2, 3, 4>>), FromRows(k, <<1, 2, 2, 4>>)}
      [] k = "M3" -> {LoadIdentity(k),
                      FromRows(k, <<2, 0, 1, 1, 3, 2, 1, 1, 2>>),
                      FromRows(k, <<1, 2, 3, 0, 0, 0, 4, 5, 6>>)}
      [] k = "M4" -> {LoadIdentity(k),
                      FromRows(k, <<3, 2, 0, 2, 3, 1, 3, 0,
                                    2, 1, 3, 3, 1, 1, 0, 2>>),
                      FromRows(k, <<1, 2, 3, 4, 0, 0, 0, 0,
                                    5, 6, 7, 8, 1, 0, 2, 1>>)}
      [] k = "M5" -> {LoadIdentity(k)}
      [] k = "S"  -> {LoadIdentity(k), Translation(<<1, 2, 3>>),
                      Affine(<<2, 0, 1, 1, 3, 2, 1, 1, 2>>, <<1, -1, 2>>),
                      Affine(<<1, 2, 3, 1, 2, 3, 0, 1, 1>>, <<2, 0, 1>>)}

\* what an output object holds before the call: any values
OutFill(k) == [i \in 0 .. Elements(k) - 1 |-> T(i + 5)]

(***************************************************************************)
(* Default construction, Transposed, Transpose.                            *)
(***************************************************************************)
\* what the elements of an object hold when no constructor assigned them
Indeterminate(k) ==
    {[i \in 0 .. Elements(k) - 1 |-> T(v)] : v \in Vals} \cup {OutFill(k)}

\* Matrix::Matrix(): Reset() #ifdef GS_ENABLE_AUTO_INIT
DefaultMatrix(k, fill) == IF GS_ENABLE_AUTO_INIT THEN Reset(k) ELSE fill

\* SparseMatrix4T::SparseMatrix4T(): Reset() #ifndef GS_ENABLE_AUTO_INIT
DefaultSparse(fill) == IF ~GS_ENABLE_AUTO_INIT THEN Reset("S") ELSE fill

\* the default constructor of the type k
Default(k, fill) == IF k = "S" THEN DefaultSparse(fill) ELSE DefaultMatrix(k, fill)

\* TransposedType of the type k
TransposedType(k) ==
    CASE k = "S" -> "M4" [] k = "M23" -> "M32" [] k = "M32" -> "M23"
      [] OTHER -> k

\* the loop leaving out the last row
ForEachRowCol_LastRowSkipped(k) ==
    [n \in 1 .. (Rows(k) - 1) * Cols(k) |->
        <<(n - 1) \div Cols(k), (n - 1) % Cols(k)>>]

\* __GS_FOREACH_ROW_COL__(r, c): the pairs (r, c) in the order of the loops
ForEachRowCol(k) ==
    LET rowsOuter == IF k = "S" THEN GS_ROW_MAJOR_STORAGE
                                ELSE GS_MATRIX_COLUMN_MAJOR
    IN  [n \in 1 .. Rows(k) * Cols(k) |->
            IF rowsOuter THEN <<(n - 1) \div Cols(k), (n - 1) % Cols(k)>>
                         ELSE <<(n - 1) % Rows(k), (n - 1) \div Rows(k)>>]

\* result(c, r) = (*this)(r, c) for every pair of the loop
TransposedWrites(k, self) ==
    LET each == ForEachRowCol(k)
    IN  [n \in 1 .. Len(each) |->
            <<each[n][2], each[n][1], Get(k, self, each[n][1], each[n][2])>>]

\* Matrix::Transposed(); result is the default-constructed TransposedType
Transposed(k, self, result) ==
    WriteAll(TransposedType(k), result, TransposedWrites(k, self))

\* the indices of "result(i, ThisType::rowsSparse);", an expression that
\* evaluates operator() and assigns nothing
TransposedSparseTouched == [i \in 1 .. columnsSparse |-> <<i - 1, rowsSparse>>]

\* every index of SparseMatrix4T::Transposed() is one its object accepts
TransposedSparseInRange ==
    /\ \A n \in 1 .. Len(ForEachRowCol("S")) :
          /\ InRange("S", ForEachRowCol("S")[n][1], ForEachRowCol("S")[n][2])
          /\ InRange("M4", ForEachRowCol("S")[n][2], ForEachRowCol("S")[n][1])
    /\ \A n \in 1 .. Len(TransposedSparseTouched) :
          InRange("M4", TransposedSparseTouched[n][1], TransposedSparseTouched[n][2])

\* SparseMatrix4T::Transposed(); abort is whether a failed GS_ASSERT stops
\* the program
TransposedSparse(self, result, abort) ==
    [result  |-> WriteAll("M4", result, TransposedWrites("S", self)),
     asserts |-> IF TransposedSparseInRange THEN "passed"
                 ELSE IF abort THEN "stopped" ELSE "ignored"]

\* the pairs of flat indices Matrix::Transpose() swaps, in loop order
RECURSIVE TransposeSwaps(_, _, _)
TransposeSwaps(cols, i, j) ==
    IF ~(i + 1 < cols) THEN <<>>
    ELSE IF ~(j + i < cols) THEN TransposeSwaps(cols, i + 1, 1)
    ELSE << <<i * (cols + 1) + j, (j + i) * cols + i>> >>
            \o TransposeSwaps(cols, i, j + 1)

\* std::swap(m_[a], m_[b]); u is what lies behind the buffer
Swap(buf, a, b, u) == RawPut(RawPut(buf, a, RawGet(buf, b, u)), b, RawGet(buf, a, u))

RECURSIVE SwapAll(_, _, _)
SwapAll(buf, swaps, u) ==
    IF swaps = <<>> THEN buf
    ELSE SwapAll(Swap(buf, swaps[1][1], swaps[1][2], u), Tail(swaps), u)

\* every flat index Transpose() uses lies in m_[Rows*Cols]
TransposeInBounds(k) ==
    LET swaps == TransposeSwaps(Cols(k), 0, 1)
    IN  \A n \in 1 .. Len(swaps) :
            swaps[n][1] \in 0 .. Elements(k) - 1 /\ swaps[n][2] \in 0 .. Elements(k) - 1

\* a Transpose() that also exchanges the pairs below the diagonal
Transpose_BothTriangles(k, self, u) ==
    LET swaps == TransposeSwaps(Cols(k), 0, 1)
        back == [n \in 1 .. Len(swaps) |-> <<swaps[n][2], swaps[n][1]>>]
    IN  [m |-> SwapAll(self, swaps \o back, u),
         asserts |-> IF TransposeInBounds(k) THEN "passed" ELSE "ignored"]

\* Matrix::Transpose(), for Rows == Cols; m_ is indexed without GS_ASSERT
Transpose(k, self, u) ==
    [m |-> SwapAll(self, TransposeSwaps(Cols(k), 0, 1), u),
     asserts |-> IF TransposeInBounds(k) THEN "passed" ELSE "ignored"]

(***************************************************************************)
(* Matrix: operator *, operator *=.                                        *)
(***************************************************************************)
\* the instances Matrix<T, Rows, Cols> of the model
DenseKinds == {"M1", "M2", "M3", "M4", "M5", "M23", "M32"}

\* Matrix<T, Rows, Cols> for lhs Matrix<T, Rows, K> and rhs Matrix<T, K, Cols>
ProductType(kl, kr) ==
    CHOOSE k \in DenseKinds : Rows(k) = Rows(kl) /\ Cols(k) = Cols(kr)

\* a product that accumulates onto what the result object held
Product_NoReset(kl, kr, lhsBuf, rhsBuf, result) ==
    [i \in DOMAIN result |->
        LET p == CHOOSE q \in (0 .. Rows(kl) - 1) \X (0 .. Cols(kr) - 1) :
                    Index(ProductType(kl, kr), q[1], q[2]) = i
        IN  result[i]
              ++ Accumulate(kl, lhsBuf, kr, rhsBuf, p[1], p[2], 0, Cols(kl))]

\* operator * (Matrix<Rows,ColsRows>, Matrix<ColsRows,Cols>); result is the
\* object made by Matrix(UninitializeTag): every entry is set to T(0) and
\* then accumulated
Product(kl, kr, lhsBuf, rhsBuf, result) ==
    [i \in DOMAIN result |->
        LET p == CHOOSE q \in (0 .. Rows(kl) - 1) \X (0 .. Cols(kr) - 1) :
                    Index(ProductType(kl, kr), q[1], q[2]) = i
        IN  Accumulate(kl, lhsBuf, kr, rhsBuf, p[1], p[2], 0, Cols(kl))]

\* Matrix::operator *= : *this = (*this * rhs)
ProductAssign(k, self, rhsBuf, result) == Product(k, k, self, rhsBuf, result)

(***************************************************************************)
(* Vector2T (Vector2.h): a vector is the record of its members x and y.    *)
(***************************************************************************)
\* Vector2T(const T& x, const T& y)
Vector2T(x, y) == [x |-> x, y |-> y]

\* Vector2T::operator *= (const Vector2T<T>&)
VecMulAssign(self, rhsVec) ==
    [x |-> self.x ** rhsVec.x, y |-> self.y ** rhsVec.y]

\* Vector2T::operator /= (const Vector2T<T>&), for rhs.x # 0 and rhs.y # 0
VecDivAssign(self, rhsVec) ==
    [x |-> RDiv(self.x, rhsVec.x), y |-> RDiv(self.y, rhsVec.y)]

\* operator / (const Vector2T<T>&, const Vector2T<T>&):
\* "auto result = lhs; result *= rhs; return result;"
VecDiv(lhsVec, rhsVec) ==
    LET result == lhsVec
    IN  VecMulAssign(result, rhsVec)

(***************************************************************************)
(* Conversions.h: a quaternion is the record of its members x, y, z, w.    *)
(***************************************************************************)
\* the nine assignments of QuaternionToMatrix(M& out, const Q<T>& in)
QuaternionToMatrixWrites(q) ==
    LET x == q.x
        y == q.y
        z == q.z
        w == q.w
    IN <<
       <<0, 0, (T(1) -- ((T(2) ** y) ** y)) -- ((T(2) ** z) ** z)>>,
       <<0, 1, ((T(2) ** x) ** y) ++ ((T(2) ** z) ** w)>>,
       <<0, 2, ((T(2) ** x) ** z) -- ((T(2) ** y) ** w)>>,
       <<1, 0, ((T(2) ** x) ** y) -- ((T(2) ** z) ** w)>>,
       <<1, 1, (T(1) -- ((T(2) ** x) ** x)) -- ((T(2) ** z) ** z)>>,
       <<1, 2, ((T(2) ** z) ** y) ++ ((T(2) ** x) ** w)>>,
       <<2, 0, ((T(2) ** x) ** z) ++ ((T(2) ** y) ** w)>>,
       <<2, 1, ((T(2) ** z) ** y) -- ((T(2) ** x) ** w)>>,
       <<2, 2, (T(1) -- ((T(2) ** x) ** x)) -- ((T(2) ** y) ** y)>>
       >>

\* QuaternionToMatrix(out, in) for out of a type with at least 3 rows and
\* 3 columns
QuaternionToMatrix(k, outBuf, q) == WriteAll(k, outBuf, QuaternionToMatrixWrites(q))

\* a transposed conversion making the assignments of the plain one
QuaternionToMatrixTransposed_Plain(k, outBuf, q) ==
    WriteAll(k, outBuf, QuaternionToMatrixWrites(q))

\* the nine assignments of QuaternionToMatrixTransposed(M& out, const Q<T>& in)
QuaternionToMatrixTransposedWrites(q) ==
    LET x == q.x
        y == q.y
        z == q.z
        w == q.w
    IN <<
       <<0, 0, (T(1) -- ((T(2) ** y) ** y)) -- ((T(2) ** z) ** z)>>,
       <<0, 1, ((T(2) ** x) ** y) -- ((T(2) ** z) ** w)>>,
       <<0, 2, ((T(2) ** x) ** z) ++ ((T(2) ** y) ** w)>>,
       <<1, 0, ((T(2) ** x) ** y) ++ ((T(2) ** z) ** w)>>,
       <<1, 1, (T(1) -- ((T(2) ** x) ** x)) -- ((T(2) ** z) ** z)>>,
       <<1, 2, ((T(2) ** z) ** y) -- ((T(2) ** x) ** w)>>,
       <<2, 0, ((T(2) ** x) ** z) -- ((T(2) ** y) ** w)>>,
       <<2, 1, ((T(2) ** z) ** y) ++ ((T(2) ** x) ** w)>>,
       <<2, 2, (T(1) -- ((T(2) ** x) ** x)) -- ((T(2) ** y) ** y)>>
       >>

\* QuaternionToMatrixTransposed(out, in)
QuaternionToMatrixTransposed(k, outBuf, q) ==
    WriteAll(k, outBuf, QuaternionToMatrixTransposedWrites(q))

(***************************************************************************)
(* The runs: operands are built by element writes, then one call is made.  *)
(***************************************************************************)
\* the storage and vector conventions of the build
InitLayout(k) ==
    /\ GS_MATRIX_COLUMN_MAJOR \in (IF k = "S" THEN {FALSE} ELSE BOOLEAN)
    /\ GS_ROW_MAJOR_STORAGE \in (IF k = "S" THEN BOOLEAN ELSE {FALSE})
    /\ GS_ROW_VECTORS \in (IF k = "S" THEN BOOLEAN ELSE {FALSE})

\* the build of the runs in which no default constructor is executed
InitFlags(k) ==
    /\ InitLayout(k)
    /\ GS_ENABLE_AUTO_INIT = FALSE

InitKind(k) ==
    /\ kind = k
    /\ rkind = k
    /\ InitFlags(k)
    /\ m \in Bases(k)
    /\ rhs = Reset(k)
    /\ out = OutFill(k)
    /\ old = [m |-> m, out |-> out]
    /\ ret = FALSE
    /\ asserts = "passed"
    /\ pc = "build"
    /\ edits = 0

\* m(r, c) = v
SetEntry ==
    /\ pc = "build"
    /\ edits < MaxEdits
    /\ \E r \in 0 .. Rows(kind) - 1, c \in 0 .. Cols(kind) - 1, v \in Vals :
          /\ Get(kind, m, r, c) # T(v)
          /\ m' = Put(kind, m, r, c, T(v))
    /\ edits' = edits + 1
    /\ UNCHANGED <<flags, kind, rkind, rhs, out, old, ret, asserts, pc>>

\* rhs(r, c) = v
SetEntryRhs ==
    /\ pc = "build"
    /\ edits < MaxEdits
    /\ \E r \in 0 .. Rows(rkind) - 1, c \in 0 .. Cols(rkind) - 1, v \in Vals :
          /\ Get(rkind, rhs, r, c) # T(v)
          /\ rhs' = Put(rkind, rhs, r, c, T(v))
    /\ edits' = edits + 1
    /\ UNCHANGED <<flags, kind, rkind, m, out, old, ret, asserts, pc>>

\* what a read behind the object may yield, where one is made
Behind(k) == IF k = "S" /\ ~InverseSInRange THEN Vals ELSE {0}

\* whether a failed GS_ASSERT stops the program, where one fails
Aborts(k) == IF k = "S" /\ ~InverseSInRange THEN BOOLEAN ELSE {FALSE}

\* ret = Inverse(out, m)
CallInverse ==
    /\ pc = "build"
    /\ \E u \in Behind(kind), abort \in Aborts(kind) :
          LET res == IF kind = "S" THEN InverseS(out, m, T(u), abort)
                     ELSE InverseDense(kind, out, m)
                               @@ [asserts |-> "passed"]
          IN  /\ out' = res.inv
              /\ ret' = res.ret
              /\ asserts' = res.asserts
    /\ pc' = "Inverse"
    /\ old' = [m |-> m, out |-> out]
    /\ UNCHANGED <<flags, kind, rkind, m, rhs, edits>>

\* ret = m.MakeInverse()
CallMakeInverse ==
    /\ pc = "build"
    /\ kind = "S"
    /\ \E u \in Behind(kind), abort \in Aborts(kind) :
          LET res == MakeInverse(m, T(u), abort)
          IN  /\ m' = res.inv
              /\ ret' = res.ret
              /\ asserts' = res.asserts
    /\ pc' = "MakeInverse"
    /\ old' = [m |-> m, out |-> out]
    /\ UNCHANGED <<flags, kind, rkind, rhs, out, edits>>

\* out = m.Inverse()
CallInverseMember ==
    /\ pc = "build"
    /\ kind = "S"
    /\ \E u \in Behind(kind), abort \in Aborts(kind) :
          LET res == InverseMember(m, T(u), abort)
          IN  /\ out' = res.inv
              /\ asserts' = res.asserts
    /\ pc' = "InverseMember"
    /\ old' = [m |-> m, out |-> out]
    /\ UNCHANGED <<flags, kind, rkind, m, rhs, ret, edits>>

\* out = m * rhs
CallMul ==
    /\ pc = "build"
    /\ kind = "S"
    /\ out' = SparseMul(m, rhs)
    /\ pc' = "Mul"
    /\ old' = [m |-> m, out |-> out]
    /\ UNCHANGED <<flags, kind, rkind, m, rhs, ret, asserts, edits>>

\* m *= rhs
CallMulAssign ==
    /\ pc = "build"
    /\ kind = "S"
    /\ m' = MulAssign(m, rhs)
    /\ pc' = "MulAssign"
    /\ old' = [m |-> m, out |-> out]
    /\ UNCHANGED <<flags, kind, rkind, rhs, out, ret, asserts, edits>>

\* Inverse and MakeInverse on every matrix type
Init == \E k \in Kinds : InitKind(k)

Next == SetEntry \/ CallInverse \/ CallMakeInverse \/ CallInverseMember

Spec == Init /\ [][Next]_vars

\* the operands the products start from
MulBases ==
    {LoadIdentity("S"), Translation(<<1, 2, 3>>),
     Affine(<<2, 0, 1, 1, 3, 2, 1, 1, 2>>, <<1, -1, 2>>)}

\* products of two SparseMatrix4T
InitMul ==
    /\ kind = "S"
    /\ rkind = "S"
    /\ InitFlags("S")
    /\ m \in MulBases
    /\ rhs \in MulBases
    /\ out = OutFill("S")
    /\ old = [m |-> m, out |-> out]
    /\ ret = FALSE
    /\ asserts = "passed"
    /\ pc = "build"
    /\ edits = 0

NextMul == SetEntry \/ SetEntryRhs \/ CallMul \/ CallMulAssign

SpecMul == InitMul /\ [][NextMul]_vars

\* the translation vectors composed
Translations == [1 .. 3 -> Vals] \cup {<<1, 2, 3>>}

\* compositions of two translations
InitTranslate ==
    /\ kind = "S"
    /\ rkind = "S"
    /\ InitFlags("S")
    /\ \E a \in Translations, b \in Translations :
          m = Translation(a) /\ rhs = Translation(b)
    /\ out = OutFill("S")
    /\ old = [m |-> m, out |-> out]
    /\ ret = FALSE
    /\ asserts = "passed"
    /\ pc = "build"
    /\ edits = 0

NextTranslate == CallMulAssign

SpecTranslate == InitTranslate /\ [][NextTranslate]_vars

\* the types transposed: 1x1 to 5x5, 2x3, 3x2 and SparseMatrix4T
TransposeKinds == {"M1", "M2", "M3", "M4", "M5", "M23", "M32", "S"}

\* the matrix of type k with the entries 1, 2, 3, ... in row order
Counting(k) == FromRows(k, [n \in 1 .. Elements(k) |-> n])

\* result = m.Transposed()
CallTransposed ==
    /\ pc = "build"
    /\ \E fill \in Indeterminate(TransposedType(kind)),
          abort \in (IF kind = "S" /\ ~TransposedSparseInRange
                     THEN BOOLEAN ELSE {FALSE}) :
          LET result == DefaultMatrix(TransposedType(kind), fill)
              res == IF kind = "S" THEN TransposedSparse(m, result, abort)
                     ELSE [result  |-> Transposed(kind, m, result),
                           asserts |-> "passed"]
          IN  /\ out' = res.result
              /\ asserts' = res.asserts
              /\ old' = [m |-> m, out |-> result]
    /\ pc' = "Transposed"
    /\ UNCHANGED <<flags, kind, rkind, m, rhs, ret, edits>>

\* m.Transpose()
CallTranspose ==
    /\ pc = "build"
    /\ kind # "S"
    /\ Rows(kind) = Cols(kind)
    /\ \E u \in (IF TransposeInBounds(kind) THEN {0} ELSE Vals) :
          LET res == Transpose(kind, m, T(u))
          IN  /\ m' = res.m
              /\ asserts' = res.asserts
    /\ pc' = "Transpose"
    /\ old' = [m |-> m, out |-> out]
    /\ UNCHANGED <<flags, kind, rkind, rhs, out, ret, edits>>

\* transpositions of matrices of every shape
InitTranspose ==
    \E k \in TransposeKinds :
        /\ kind = k
        /\ rkind = k
        /\ InitLayout(k)
        /\ GS_ENABLE_AUTO_INIT \in BOOLEAN
        /\ m = Counting(k)
        /\ rhs = Reset(k)
        /\ out = OutFill(k)
        /\ old = [m |-> m, out |-> out]
        /\ ret = FALSE
        /\ asserts = "passed"
        /\ pc = "build"
        /\ edits = 0

NextTranspose == SetEntry \/ CallTransposed \/ CallTranspose

SpecTranspose == InitTranspose /\ [][NextTranspose]_vars

\* the (row, col) pairs operator * (SparseMatrix4T, SparseMatrix4T) passes
\* to operator() of result, lhs and rhs
SparseMulIndices ==
    {<<r, c>> : r \in 0 .. rowsSparse - 1, c \in 0 .. columnsSparse - 1}
      \cup {<<r, i>> : r \in 0 .. rowsSparse - 1, i \in 0 .. SparseInner - 1}
      \cup {<<i, c>> : i \in 0 .. SparseInner - 1, c \in 0 .. columnsSparse - 1}
      \cup (IF GS_ROW_VECTORS
            THEN {<<rowsSparse - 1, c>> : c \in 0 .. columnsSparse - 1}
            ELSE {<<r, columnsSparse - 1>> : r \in 0 .. rowsSparse - 1})

\* the operations of SparseMatrix4T in every layout
InitSparse ==
    /\ kind = "S"
    /\ rkind = "S"
    /\ InitLayout("S")
    /\ GS_ENABLE_AUTO_INIT \in BOOLEAN
    /\ m \in Bases("S")
    /\ rhs \in MulBases
    /\ out = OutFill("S")
    /\ old = [m |-> m, out |-> out]
    /\ ret = FALSE
    /\ asserts = "passed"
    /\ pc = "build"
    /\ edits = 0

NextSparse ==
    \/ CallTransposed
    \/ CallInverse
    \/ CallMakeInverse
    \/ CallInverseMember
    \/ CallMul

SpecSparse == InitSparse /\ [][NextSparse]_vars

\* the types constructed and filled: 1x1, 2x2, 2x3, 3x2, SparseMatrix4T
ConstructKinds == {"M1", "M2", "M23", "M32", "S"}

\* the value sequences streamed into an object of type k: up to one value
\* more than it stores, all different from each other and from its entries
Streams(k) ==
    {[n \in 1 .. len |-> 0 - (Elements(k) + n)] : len \in 1 .. Elements(k) + 1}

\* m = ThisType()
Construct ==
    /\ pc = "build"
    /\ \E fill \in Indeterminate(kind) : m' = Default(kind, fill)
    /\ pc' = "Construct"
    /\ old' = [m |-> m, out |-> out]
    /\ UNCHANGED <<flags, kind, rkind, rhs, out, ret, asserts, edits>>

\* m << values[1], values[2], ...
CallInitializer ==
    /\ pc = "build"
    /\ \E values \in Streams(kind) :
          \E abort \in (IF Accepted(kind, values) = Len(values)
                        THEN {FALSE} ELSE BOOLEAN) :
              LET res == StreamInto(kind, m, values, abort)
              IN  /\ m' = res.m
                  /\ asserts' = res.asserts
                  /\ rhs' = values
    /\ pc' = "Initializer"
    /\ old' = [m |-> m, out |-> out]
    /\ UNCHANGED <<flags, kind, rkind, out, ret, edits>>

\* construction, element writes and comma-initialization
InitConstruct ==
    \E k \in ConstructKinds :
        /\ kind = k
        /\ rkind = k
        /\ InitLayout(k)
        /\ GS_ENABLE_AUTO_INIT \in BOOLEAN
        /\ m = Counting(k)
        /\ rhs = <<>>
        /\ out = OutFill(k)
        /\ old = [m |-> m, out |-> out]
        /\ ret = FALSE
        /\ asserts = "passed"
        /\ pc = "build"
        /\ edits = 0

NextConstruct == SetEntry \/ Construct \/ CallInitializer

SpecConstruct == InitConstruct /\ [][NextConstruct]_vars

\* the types of lhs in the products
ProductKinds == {"M2", "M3", "M23", "M32"}

\* the second operand before the element writes
CountingDown(k) == FromRows(k, [n \in 1 .. Elements(k) |-> 3 - n])

\* out = m * rhs
CallProduct ==
    /\ pc = "build"
    /\ \E result \in Indeterminate(ProductType(kind, rkind)) :
          /\ out' = Product(kind, rkind, m, rhs, result)
          /\ old' = [m |-> m, out |-> result, rhs |-> rhs]
    /\ pc' = "Product"
    /\ UNCHANGED <<flags, kind, rkind, m, rhs, ret, asserts, edits>>

\* m *= rhs
CallProductAssign ==
    /\ pc = "build"
    /\ kind = rkind
    /\ Rows(kind) = Cols(kind)
    /\ \E result \in Indeterminate(kind) :
          m' = ProductAssign(kind, m, rhs, result)
    /\ pc' = "ProductAssign"
    /\ old' = [m |-> m, out |-> out, rhs |-> rhs]
    /\ UNCHANGED <<flags, kind, rkind, rhs, out, ret, asserts, edits>>

\* m *= m
CallProductAssignSelf ==
    /\ pc = "build"
    /\ Rows(kind) = Cols(kind)
    /\ \E result \in Indeterminate(kind) :
          m' = ProductAssign(kind, m, m, result)
    /\ pc' = "ProductAssignSelf"
    /\ old' = [m |-> m, out |-> out, rhs |-> rhs]
    /\ UNCHANGED <<flags, kind, rkind, rhs, out, ret, asserts, edits>>

\* products of two Matrix objects of matching shapes
InitProduct ==
    \E kl \in ProductKinds, kr \in ProductKinds :
        /\ Cols(kl) = Rows(kr)
        /\ kind = kl
        /\ rkind = kr
        /\ InitLayout(kl)
        /\ GS_ENABLE_AUTO_INIT = FALSE
        /\ m = Counting(kl)
        /\ rhs = CountingDown(kr)
        /\ out = OutFill(ProductType(kl, kr))
        /\ old = [m |-> m, out |-> out, rhs |-> rhs]
        /\ ret = FALSE
        /\ asserts = "passed"
        /\ pc = "build"
        /\ edits = 0

NextProduct ==
    \/ SetEntry
    \/ SetEntryRhs
    \/ CallProduct
    \/ CallProductAssign
    \/ CallProductAssignSelf

SpecProduct == InitProduct /\ [][NextProduct]_vars

\* the components the vectors are built from
VecVals == Vals \cup {3}

\* v / w and v /= w for two Vector2T with no zero component in w
InitVector ==
    /\ kind = "V2"
    /\ rkind = "V2"
    /\ GS_MATRIX_COLUMN_MAJOR = FALSE
    /\ GS_ROW_MAJOR_STORAGE = FALSE
    /\ GS_ROW_VECTORS = FALSE
    /\ GS_ENABLE_AUTO_INIT = FALSE
    /\ \E x \in VecVals, y \in VecVals : m = Vector2T(T(x), T(y))
    /\ \E x \in VecVals \ {0}, y \in VecVals \ {0} : rhs = Vector2T(T(x), T(y))
    /\ out = Vector2T(T(0), T(0))
    /\ old = [m |-> m, out |-> out, rhs |-> rhs]
    /\ ret = FALSE
    /\ asserts = "passed"
    /\ pc = "build"
    /\ edits = 0

\* out = m / rhs
CallVecDiv ==
    /\ pc = "build"
    /\ kind = "V2"
    /\ out' = VecDiv(m, rhs)
    /\ pc' = "VecDiv"
    /\ old' = [m |-> m, out |-> out, rhs |-> rhs]
    /\ UNCHANGED <<flags, kind, rkind, m, rhs, ret, asserts, edits>>

\* m /= rhs
CallVecDivAssign ==
    /\ pc = "build"
    /\ kind = "V2"
    /\ m' = VecDivAssign(m, rhs)
    /\ pc' = "VecDivAssign"
    /\ old' = [m |-> m, out |-> out, rhs |-> rhs]
    /\ UNCHANGED <<flags, kind, rkind, rhs, out, ret, asserts, edits>>

NextVector == CallVecDiv \/ CallVecDivAssign

SpecVector == InitVector /\ [][NextVector]_vars

\* the types a quaternion is converted into: 3x3, 4x4, SparseMatrix4T
QuaternionKinds == {"M3", "M4", "S"}

\* conversions of a quaternion into a matrix that holds any values
InitQuaternion ==
    \E k \in QuaternionKinds :
        /\ kind = k
        /\ rkind = k
        /\ InitLayout(k)
        /\ GS_ENABLE_AUTO_INIT = FALSE
        /\ \E x \in Vals, y \in Vals, z \in Vals, w \in Vals :
              m = [x |-> T(x), y |-> T(y), z |-> T(z), w |-> T(w)]
        /\ rhs = Reset(k)
        /\ out = OutFill(k)
        /\ old = [m |-> m, out |-> out]
        /\ ret = FALSE
        /\ asserts = "passed"
        /\ pc = "build"
        /\ edits = 0

\* QuaternionToMatrix(out, m)
CallQuaternionToMatrix ==
    /\ pc = "build"
    /\ out' = QuaternionToMatrix(kind, out, m)
    /\ pc' = "QuaternionToMatrix"
    /\ old' = [m |-> m, out |-> out]
    /\ UNCHANGED <<flags, kind, rkind, m, rhs, ret, asserts, edits>>

\* QuaternionToMatrixTransposed(out, m)
CallQuaternionToMatrixTransposed ==
    /\ pc = "build"
    /\ out' = QuaternionToMatrixTransposed(kind, out, m)
    /\ pc' = "QuaternionToMatrixTransposed"
    /\ old' = [m |-> m, out |-> out]
    /\ UNCHANGED <<flags, kind, rkind, m, rhs, ret, asserts, edits>>

NextQuaternion == CallQuaternionToMatrix \/ CallQuaternionToMatrixTransposed

SpecQuaternion == InitQuaternion /\ [][NextQuaternion]_vars

(***************************************************************************)
(* Reference definitions for the properties: matrices as functions on      *)
(* (row, col), the Laplace determinant, cofactors.                         *)
(***************************************************************************)
\* the n x n matrix a buffer of type k holds
Full(k, buf) ==
    [p \in (0 .. Rows(k) - 1) \X (0 .. Cols(k) - 1) |-> Get(k, buf, p[1], p[2])]

Skip(i, x) == IF x < i THEN x ELSE x + 1

\* A without row i and column j
Minor(A, n, i, j) ==
    [p \in (0 .. n - 2) \X (0 .. n - 2) |-> A[<<Skip(i, p[1]), Skip(j, p[2])>>]]

Sign(i) == IF i % 2 = 0 THEN T(1) ELSE T(-1)

RECURSIVE LaplaceDet(_, _)
RECURSIVE LaplaceSum(_, _, _)
\* the sum over columns j < upto of (-1)^j * A[0, j] * det(minor(0, j))
LaplaceSum(A, n, upto) ==
    IF upto = 0 THEN T(0)
    ELSE LaplaceSum(A, n, upto - 1)
           ++ ((Sign(upto - 1) ** A[<<0, upto - 1>>])
                 ** LaplaceDet(Minor(A, n, 0, upto - 1), n - 1))

LaplaceDet(A, n) == IF n = 1 THEN A[<<0, 0>>] ELSE LaplaceSum(A, n, n)

Cofactor(A, n, i, j) == Sign(i + j) ** LaplaceDet(Minor(A, n, i, j), n - 1)

\* inv is the adjugate of A divided by its determinant d
IsAdjugateOver(k, inv, A, n, d) ==
    \A i \in 0 .. n - 1, j \in 0 .. n - 1 :
        Get(k, inv, i, j) = RDiv(Cofactor(A, n, j, i), d)

\* inv is a two-sided inverse of mm under operator *
IsInverseOf(k, inv, mm) ==
    /\ MatMul(k, mm, inv) = LoadIdentity(k)
    /\ MatMul(k, inv, mm) = LoadIdentity(k)

(***************************************************************************)
(* Properties.                                                             *)
(***************************************************************************)
\* C1: after Inverse(inv, M) on a 3x3 M with non-zero determinant d, the
\* call returned true, every inv(i,j) is cofactor(j,i)/d, and M*inv and
\* inv*M are the identity.
C1_Inverse3IsAdjugate ==
    (pc = "Inverse" /\ kind = "M3" /\ LaplaceDet(Full("M3", m), 3) # T(0)) =>
        /\ ret = TRUE
        /\ IsAdjugateOver("M3", out, Full("M3", m), 3, LaplaceDet(Full("M3", m), 3))
        /\ IsInverseOf("M3", out, m)

\* C2: Determinant(I3) is 1 and Inverse(out, I3) returns true with out = I3.
C2_Identity3 ==
    (pc = "Inverse" /\ kind = "M3" /\ m = LoadIdentity("M3")) =>
        /\ Determinant3(m) = T(1)
        /\ ret = TRUE
        /\ out = LoadIdentity("M3")

\* C3: after Inverse(inv, M) on a 4x4 M with non-zero determinant d, the
\* call returned true, every inv(i,j) is cofactor(j,i)/d, and M*inv and
\* inv*M are the identity.
C3_Inverse4IsAdjugate ==
    (pc = "Inverse" /\ kind = "M4" /\ LaplaceDet(Full("M4", m), 4) # T(0)) =>
        /\ ret = TRUE
        /\ IsAdjugateOver("M4", out, Full("M4", m), 4, LaplaceDet(Full("M4", m), 4))
        /\ IsInverseOf("M4", out, m)

\* a 4x4 matrix with no zero entry in its inverse and determinant 3 inverted
C3_Witness ==
    /\ pc = "Inverse" /\ kind = "M4" /\ ret = TRUE
    /\ LaplaceDet(Full("M4", m), 4) = T(3)
    /\ \A i \in 0 .. 15 : out[i] # T(0) /\ out[i] # OutFill("M4")[i]

\* C4: for M = [[a,b],[c,d]] with ad - bc # 0, Inverse(inv, M) returns true
\* with inv = [[d,-b],[-c,a]] / (ad - bc), a two-sided inverse of M; and
\* [[2,0],[0,2]] has determinant 4 and inverse [[1/2,0],[0,1/2]].
C4_Inverse2ClosedForm ==
    (pc = "Inverse" /\ kind = "M2") =>
        LET a == Get("M2", m, 0, 0)
            b == Get("M2", m, 0, 1)
            c == Get("M2", m, 1, 0)
            d == Get("M2", m, 1, 1)
            det == (a ** d) -- (b ** c)
        IN  /\ det # T(0) =>
                /\ ret = TRUE
                /\ Get("M2", out, 0, 0) = RDiv(d, det)
                /\ Get("M2", out, 0, 1) = RDiv(RNeg(b), det)
                /\ Get("M2", out, 1, 0) = RDiv(RNeg(c), det)
                /\ Get("M2", out, 1, 1) = RDiv(a, det)
                /\ IsInverseOf("M2", out, m)
            /\ m = FromRows("M2", <<2, 0, 0, 2>>) =>
                /\ Determinant2(m) = T(4)
                /\ Full("M2", out) = (<<0, 0>> :> <<1, 2>> @@ <<0, 1>> :> <<0, 1>>
                                      @@ <<1, 0>> :> <<0, 1>> @@ <<1, 1>> :> <<1, 2>>)

\* [[2,0],[0,2]] inverted, and a matrix with four non-zero entries inverted
C4_Witness ==
    /\ pc = "Inverse" /\ kind = "M2" /\ ret = TRUE
    /\ \/ m = FromRows("M2", <<2, 0, 0, 2>>)
       \/ m = FromRows("M2", <<1, 2, 3, 4>>)
    /\ out # OutFill("M2")

\* the 4x4 matrix a SparseMatrix4T stands for: the stored entries and the
\* implicit row or column (0, 0, 0, 1)
Materialize(buf) ==
    [p \in (0 .. 3) \X (0 .. 3) |->
        IF InRange("S", p[1], p[2]) THEN Get("S", buf, p[1], p[2])
        ELSE IF p[1] = p[2] THEN T(1) ELSE T(0)]

\* the buffer of type k that holds the matrix A
BufferOf(k, A) ==
    [i \in 0 .. Elements(k) - 1 |->
        A[CHOOSE q \in DOMAIN A : Index(k, q[1], q[2]) = i]]

\* the determinant of the matrix a buffer of type k stands for
RefDet(k, buf) ==
    IF k = "S" THEN LaplaceDet(Materialize(buf), 4)
    ELSE LaplaceDet(Full(k, buf), Rows(k))

\* C5: the 2x2, 3x3, 4x4 and SparseMatrix4T overloads of Inverse return
\* false and leave every element of the output as it was when the
\* determinant of the input is zero; with any other determinant they go on
\* to the assignments and do not return false.
C5_SingularLeavesOutput ==
    (pc = "Inverse" /\ kind \in {"M2", "M3", "M4", "S"}) =>
        /\ m = old.m
        /\ RefDet(kind, m) = T(0) =>
              ret = FALSE /\ out = old.out /\ asserts = "passed"
        /\ RefDet(kind, m) # T(0) =>
              /\ out # old.out
              /\ asserts # "stopped" => ret = TRUE

\* the 3x3 matrix with a zero row was passed to Inverse
C5_Witness ==
    /\ pc = "Inverse" /\ kind = "M3" /\ ret = FALSE
    /\ m = FromRows("M3", <<1, 2, 3, 0, 0, 0, 4, 5, 6>>)
    /\ out = OutFill("M3")

\* C6: the generic NxN overload of Inverse returns false for every input,
\* the identity included, and changes no element of the output.
C6_GenericAlwaysFails ==
    (pc = "Inverse" /\ kind = "M5") =>
        ret = FALSE /\ out = old.out /\ m = old.m

\* the 5x5 identity was passed to Inverse
C6_Witness ==
    pc = "Inverse" /\ kind = "M5" /\ m = LoadIdentity("M5") /\ ret = FALSE

\* C7: for a SparseMatrix4T S with Determinant(S) = 0, S.MakeInverse()
\* returns false and leaves the 12 stored elements as they were, and
\* S.Inverse() returns a matrix equal to S and leaves S as it was.
C7_SparseSingularNoOp ==
    (kind = "S" /\ DeterminantS(old.m) = T(0)) =>
        /\ pc = "MakeInverse" => ret = FALSE /\ m = old.m /\ asserts = "passed"
        /\ pc = "InverseMember" => out = old.m /\ m = old.m /\ asserts = "passed"

\* MakeInverse() was called on a singular SparseMatrix4T with no zero row
C7_WitnessMakeInverse ==
    /\ pc = "MakeInverse" /\ kind = "S" /\ ret = FALSE
    /\ DeterminantS(old.m) = T(0)
    /\ \A r \in 0 .. 2 : \E c \in 0 .. 2 : Get("S", m, r, c) # T(0)

\* Inverse() was called on a singular SparseMatrix4T
C7_Witness ==
    /\ pc = "InverseMember" /\ kind = "S"
    /\ DeterminantS(old.m) = T(0)
    /\ out = m /\ out # OutFill("S")

\* the sparse product agrees with the dense product of the 4x4 matrices
SparseMulIsDenseMul ==
    Materialize(out) =
        Full("M4", MatMul("M4", BufferOf("M4", Materialize(m)),
                                BufferOf("M4", Materialize(rhs))))

\* C8: with column vectors, S1*S2 materialized to 4x4 is the dense product
\* of the materialized S1 and S2; entry (r,c) is the inner product over the
\* three stored rows, plus lhs(r,3) once for c = 3 and for no other column.
C8_SparseMulColumnVectors ==
    (pc = "Mul" /\ ~GS_ROW_VECTORS) =>
        /\ SparseMulIsDenseMul
        /\ \A r \in 0 .. 2, c \in 0 .. 3 :
              Get("S", out, r, c) =
                  ((Get("S", m, r, 0) ** Get("S", rhs, 0, c)
                      ++ Get("S", m, r, 1) ** Get("S", rhs, 1, c))
                      ++ Get("S", m, r, 2) ** Get("S", rhs, 2, c))
                      ++ (IF c = 3 THEN Get("S", m, r, 3) ELSE T(0))
        /\ m = old.m

\* two affine matrices with no zero translation were multiplied
C8_Witness ==
    /\ pc = "Mul" /\ ~GS_ROW_VECTORS
    /\ \A r \in 0 .. 2 : Get("S", m, r, 3) # T(0) /\ Get("S", rhs, r, 3) # T(0)
    /\ \A r \in 0 .. 2 : Get("S", out, r, 3) # Get("S", m, r, 3)
    /\ m # rhs

\* C9: with row vectors, S1*S2 materialized to 4x4 is the dense product of
\* the materialized S1 and S2.
C9_SparseMulRowVectors ==
    (pc = "Mul" /\ GS_ROW_VECTORS) => SparseMulIsDenseMul

\* the matrix is a translation: its linear block is the identity
IsTranslation(buf) ==
    \A r \in 0 .. 2, c \in 0 .. 2 :
        Materialize(buf)[<<r, c>>] = (IF r = c THEN T(1) ELSE T(0))

\* the translation column of a matrix with column vectors
TranslationOf(buf) == [r \in 0 .. 2 |-> Get("S", buf, r, 3)]

\* C10: with column vectors, if A and B have the identity as linear block
\* and translations a and b, then after A *= B the linear block of A is the
\* identity and its translation is a + b; (1,2,3) with itself gives (2,4,6).
C10_TranslationsAdd ==
    (pc = "MulAssign" /\ ~GS_ROW_VECTORS
        /\ IsTranslation(old.m) /\ IsTranslation(rhs)) =>
        /\ IsTranslation(m)
        /\ \A r \in 0 .. 2 :
              TranslationOf(m)[r] = TranslationOf(old.m)[r] ++ TranslationOf(rhs)[r]
        /\ (old.m = Translation(<<1, 2, 3>>) /\ rhs = Translation(<<1, 2, 3>>))
              => m = Translation(<<2, 4, 6>>)

\* the translation by (1,2,3) was composed with itself
C10_Witness ==
    /\ pc = "MulAssign" /\ ~GS_ROW_VECTORS
    /\ old.m = Translation(<<1, 2, 3>>) /\ rhs = Translation(<<1, 2, 3>>)
    /\ m = Translation(<<2, 4, 6>>)

\* C11: with column vectors, Inverse(inv, S) on a SparseMatrix4T S with
\* non-zero determinant d returns true, every stored inv(i,j) is
\* cofactor(j,i)/d of the 4x4 matrix S stands for, and S*inv and inv*S
\* under the sparse product are the sparse identity.
C11_SparseInverseColumnVectors ==
    (pc = "Inverse" /\ kind = "S" /\ ~GS_ROW_VECTORS
        /\ RefDet("S", m) # T(0)) =>
        /\ ret = TRUE
        /\ asserts = "passed"
        /\ \A i \in 0 .. 2, j \in 0 .. 3 :
              Get("S", out, i, j) =
                  RDiv(Cofactor(Materialize(m), 4, j, i), RefDet("S", m))
        /\ SparseMul(m, out) = LoadIdentity("S")
        /\ SparseMul(out, m) = LoadIdentity("S")

\* an affine matrix with a translation and a linear block that is not the
\* identity was inverted with column vectors
C11_Witness ==
    /\ pc = "Inverse" /\ kind = "S" /\ ~GS_ROW_VECTORS /\ ret = TRUE
    /\ ~IsTranslation(m)
    /\ \A r \in 0 .. 2 :
          /\ Get("S", m, r, 3) # T(0)
          /\ Get("S", out, r, 3) # T(0)
          /\ Get("S", out, r, 3) # RNeg(Get("S", m, r, 3))

\* C12: S.Transposed() of a SparseMatrix4T S equals, in all 16 entries, the
\* transpose of the 4x4 matrix S stands for: result(c,r) = S(r,c) for the
\* stored entries and (0,0,0,1) for the implicit row or column, whatever the
\* default-constructed result held.
C12_SparseTransposedFull ==
    (pc = "Transposed" /\ kind = "S" /\ asserts # "stopped") =>
        \A r \in 0 .. 3, c \in 0 .. 3 :
            Get("M4", out, c, r) = Materialize(m)[<<r, c>>]

\* C13: in each of the four layouts, Transposed(), MakeInverse(), Inverse()
\* and operator * of SparseMatrix4T pass only indices inside the bounds of
\* the object indexed, so that no assertion fails.
C13_SparseIndicesInBounds ==
    (kind = "S" /\ pc \in {"Transposed", "Inverse", "MakeInverse",
                           "InverseMember", "Mul"}) =>
        /\ asserts = "passed"
        /\ pc = "Mul" => \A p \in SparseMulIndices : InRange("S", p[1], p[2])

\* C14: for a Matrix A of any shape R x C, A.Transposed() has shape C x R
\* with Transposed()(c,r) = A(r,c) for all valid r,c, and
\* A.Transposed().Transposed() equals A element for element, under
\* row-major and column-major storage.
C14_TransposedTwiceIsOriginal ==
    (pc = "Transposed" /\ kind # "S") =>
        LET kt == TransposedType(kind)
        IN  /\ Rows(kt) = Cols(kind) /\ Cols(kt) = Rows(kind)
            /\ DOMAIN out = 0 .. Rows(kind) * Cols(kind) - 1
            /\ \A r \in 0 .. Rows(kind) - 1, c \in 0 .. Cols(kind) - 1 :
                  Get(kt, out, c, r) = Get(kind, m, r, c)
            /\ \A fill \in Indeterminate(kind) :
                  Transposed(kt, out, DefaultMatrix(kind, fill)) = m
            /\ m = old.m

\* a 2x3 matrix with six different entries was transposed into a result
\* that held other values, under column-major storage
C14_Witness ==
    /\ pc = "Transposed" /\ kind = "M23" /\ GS_MATRIX_COLUMN_MAJOR
    /\ ~GS_ENABLE_AUTO_INIT
    /\ edits = 1
    /\ \A i \in 0 .. 5, j \in 0 .. 5 : i # j => m[i] # m[j]
    /\ \A i \in 0 .. 5 : out[i] # old.out[i]
    /\ Get("M32", out, 2, 1) = Get("M23", m, 1, 2)

\* C17: for a square Matrix of size N, Transpose() swaps each pair
\* (i,j),(j,i) with i < j exactly once, touches no diagonal entry and no
\* index outside [0, N*N); afterwards the matrix is what Transposed() returns
\* for the original, and a second Transpose() restores the original, under
\* row-major and column-major storage.
C17_TransposeInPlace ==
    (pc = "Transpose") =>
        LET n == Cols(kind)
            swaps == TransposeSwaps(n, 0, 1)
            touched(s) == {swaps[s][1], swaps[s][2]}
            pair(i, j) == {Index(kind, i, j), Index(kind, j, i)}
        IN  /\ asserts = "passed"
            /\ \A s \in 1 .. Len(swaps) : touched(s) \subseteq 0 .. n * n - 1
            /\ \A i \in 0 .. n - 1, j \in 0 .. n - 1 :
                  i < j => Cardinality({s \in 1 .. Len(swaps) :
                                            touched(s) = pair(i, j)}) = 1
            /\ \A s \in 1 .. Len(swaps) :
                  \E i \in 0 .. n - 1, j \in 0 .. n - 1 :
                      i < j /\ touched(s) = pair(i, j)
            /\ \A i \in 0 .. n - 1 : Get(kind, m, i, i) = Get(kind, old.m, i, i)
            /\ \A fill \in Indeterminate(kind) :
                  m = Transposed(kind, old.m, DefaultMatrix(kind, fill))
            /\ Transpose(kind, m, T(0)).m = old.m

\* a 5x5 matrix with an edited entry was transposed in place under
\* column-major storage
C17_Witness ==
    /\ pc = "Transpose" /\ kind = "M5" /\ GS_MATRIX_COLUMN_MAJOR
    /\ edits = 1
    /\ m # old.m
    /\ \A i \in 0 .. 4, j \in 0 .. 4 :
          Get("M5", m, i, j) = Get("M5", old.m, j, i)

\* C15: a default-constructed SparseMatrix4T has all 12 stored elements
\* zero in every build configuration, also with GS_ENABLE_AUTO_INIT defined,
\* and it is zero-filled exactly when a default-constructed Matrix is.
C15_SparseDefaultIsZero ==
    (pc = "Construct" /\ kind = "S") =>
        /\ m = Reset("S")
        /\ (\A fill \in Indeterminate("S") : DefaultSparse(fill) = Reset("S"))
             <=> (\A fill \in Indeterminate("M4") :
                      DefaultMatrix("M4", fill) = Reset("M4"))

\* C19: for Matrix and SparseMatrix4T, operator() maps every valid
\* (row,col) to a flat index below the number of stored elements, no two
\* valid pairs share an index and every index is reached; the index is
\* r*Cols + c under row-major and c*Rows + r under column-major storage;
\* a write through (row,col) changes that flat element and no other
\* (stated of every object while its entries are being written).
C19_AccessorBijection ==
    (pc = "build") =>
        LET R == Rows(kind)
            C == Cols(kind)
            valid == (0 .. R - 1) \X (0 .. C - 1)
            rowMajor == IF kind = "S" THEN GS_ROW_MAJOR_STORAGE
                                      ELSE ~GS_MATRIX_COLUMN_MAJOR
            at(p) == Index(kind, p[1], p[2])
        IN  /\ DOMAIN m = 0 .. R * C - 1
            /\ \A p \in valid :
                  /\ at(p) \in 0 .. R * C - 1
                  /\ at(p) = (IF rowMajor THEN p[1] * C + p[2] ELSE p[2] * R + p[1])
            /\ \A p \in valid, q \in valid : p # q => at(p) # at(q)
            /\ \A i \in 0 .. R * C - 1 : \E p \in valid : at(p) = i
            /\ \A p \in valid, v \in Vals :
                  LET w == Put(kind, m, p[1], p[2], T(v))
                  IN  /\ w[at(p)] = T(v)
                      /\ Get(kind, w, p[1], p[2]) = T(v)
                      /\ \A j \in 0 .. R * C - 1 : j # at(p) => w[j] = m[j]

\* entry (1,2) of a 2x3 matrix was written under column-major storage: the
\* element at flat index 2*2 + 1 changed and no other
C19_Witness ==
    /\ pc = "build" /\ kind = "M23" /\ GS_MATRIX_COLUMN_MAJOR /\ edits = 1
    /\ m[5] # Counting("M23")[5]
    /\ \A j \in 0 .. 4 : m[j] = Counting("M23")[j]
    /\ Get("M23", m, 1, 2) = m[5]

\* C20: after m << v0, ..., v(k-1) with k at most the number of stored
\* elements, on Matrix and SparseMatrix4T, the n-th value is at entry
\* (n div Cols, n mod Cols), whatever the storage order, and every entry
\* the k values did not reach holds what it held before.
C20_InitializerRowByRow ==
    (pc = "Initializer" /\ Len(rhs) <= Elements(kind)) =>
        LET C == Cols(kind)
        IN  /\ asserts = "passed"
            /\ \A n \in 0 .. Len(rhs) - 1 :
                  Get(kind, m, n \div C, n % C) = T(rhs[n + 1])
            /\ \A r \in 0 .. Rows(kind) - 1, c \in 0 .. C - 1 :
                  r * C + c >= Len(rhs) =>
                      Get(kind, m, r, c) = Get(kind, old.m, r, c)

\* five values were streamed into a SparseMatrix4T stored column-major with
\* row vectors: the fifth is at (1,1) and (1,2) holds its former value
C20_Witness ==
    /\ pc = "Initializer" /\ kind = "S"
    /\ ~GS_ROW_MAJOR_STORAGE /\ GS_ROW_VECTORS
    /\ Len(rhs) = 5
    /\ edits = 1
    /\ Get("S", m, 1, 1) = T(rhs[5])
    /\ Get("S", m, 1, 2) = Get("S", old.m, 1, 2)
    /\ Get("S", m, 1, 1) # Get("S", old.m, 1, 1)
    /\ m[4] # T(rhs[5])

\* C16: for Vector2T v and w with no zero component in w, v / w is
\* (v.x / w.x, v.y / w.y), the value v has after v /= w, and the call
\* leaves v and w as they were.
C16_VectorQuotient ==
    (pc = "VecDiv") =>
        /\ out = [x |-> RDiv(m.x, rhs.x), y |-> RDiv(m.y, rhs.y)]
        /\ out = VecDivAssign(m, rhs)
        /\ m = old.m /\ rhs = old.rhs

\* the sum over i < n of lhs(r,i)*rhs(i,c)
RECURSIVE SumOfProducts(_, _, _, _, _, _, _)
SumOfProducts(kl, lhsBuf, kr, rhsBuf, r, c, n) ==
    IF n = 0 THEN T(0)
    ELSE SumOfProducts(kl, lhsBuf, kr, rhsBuf, r, c, n - 1)
           ++ (lhsBuf[Index(kl, r, n - 1)] ** rhsBuf[Index(kr, n - 1, c)])

\* buf, of the type of kl * kr, holds the product of lhsBuf and rhsBuf
IsProductOf(kl, kr, buf, lhsBuf, rhsBuf) ==
    /\ DOMAIN buf = 0 .. Rows(kl) * Cols(kr) - 1
    /\ \A r \in 0 .. Rows(kl) - 1, c \in 0 .. Cols(kr) - 1 :
          buf[Index(ProductType(kl, kr), r, c)] =
              SumOfProducts(kl, lhsBuf, kr, rhsBuf, r, c, Cols(kl))

\* C18: for lhs (Rows x K) and rhs (K x Cols), every entry (r,c) of the
\* Rows x Cols matrix lhs * rhs is the sum over i < K of lhs(r,i)*rhs(i,c),
\* whatever the result object held before, and lhs and rhs are not changed;
\* m *= rhs and m *= m store the product of the operands as they were.
C18_DenseProduct ==
    /\ pc = "Product" =>
          /\ IsProductOf(kind, rkind, out, m, rhs)
          /\ \A result \in Indeterminate(ProductType(kind, rkind)) :
                Product(kind, rkind, m, rhs, result) = out
          /\ m = old.m /\ rhs = old.rhs
    /\ pc = "ProductAssign" =>
          IsProductOf(kind, kind, m, old.m, rhs) /\ rhs = old.rhs
    /\ pc = "ProductAssignSelf" =>
          IsProductOf(kind, kind, m, old.m, old.m)

\* a 2x3 and a 3x2 matrix without zero entries were multiplied under
\* column-major storage into a 2x2 result that held other values
C18_Witness ==
    /\ pc = "Product" /\ kind = "M23" /\ rkind = "M32"
    /\ GS_MATRIX_COLUMN_MAJOR
    /\ edits = 1
    /\ \A i \in 0 .. 5 : m[i] # T(0) /\ rhs[i] # T(0)
    /\ \A i \in 0 .. 3 : out[i] # old.out[i] /\ out[i] # T(0)
    /\ old.out = OutFill("M2")

\* the entries of m are the first Rows*Cols values of rhs in row order,
\* except the element at flat index i, if there is one, which holds v
StoredInRowOrderBut(i, v) ==
    \A r \in 0 .. Rows(kind) - 1, c \in 0 .. Cols(kind) - 1 :
        Get(kind, m, r, c) =
            (IF Index(kind, r, c) = i THEN v
             ELSE T(rhs[r * Cols(kind) + c + 1]))

\* C21 as stated: when one value more than the matrix stores is streamed
\* through the comma-initializer, no assertion is evaluated on the target of
\* the last value, and the value is written.
C21_OverflowUnchecked ==
    (pc = "Initializer" /\ Len(rhs) = Elements(kind) + 1) =>
        asserts # "stopped"

\* C21: when one value more than the matrix stores is streamed through the
\* comma-initializer, the last value has the target (Rows, 0), which the
\* GS_ASSERT(row < Rows) of operator() rejects.  Where the failed assertion
\* stops the program the value is not written and the matrix holds the
\* values before it in row order; where it does not, the value goes to flat
\* index Rows*Cols, outside the buffer, under row-major storage and to flat
\* index Rows, over entry (0,1) if there is one, under column-major storage.
C21_OverflowIsAsserted ==
    (pc = "Initializer" /\ Len(rhs) = Elements(kind) + 1) =>
        LET R == Rows(kind)
            C == Cols(kind)
            rowMajor == IF kind = "S" THEN GS_ROW_MAJOR_STORAGE
                                      ELSE ~GS_MATRIX_COLUMN_MAJOR
        IN  /\ (R * C) \div C = R /\ (R * C) % C = 0
            /\ ~InRange(kind, R, 0)
            /\ asserts \in {"stopped", "ignored"}
            /\ DOMAIN m = 0 .. R * C - 1
            /\ asserts = "stopped" => StoredInRowOrderBut(R * C, T(0))
            /\ asserts = "ignored" =>
                  StoredInRowOrderBut(IF rowMajor THEN R * C ELSE R,
                                      T(rhs[R * C + 1]))

\* seven values were streamed into a 2x3 matrix stored column-major and the
\* assertion on the target (2,0) of the seventh stopped the program
C21_Witness ==
    /\ pc = "Initializer" /\ kind = "M23" /\ GS_MATRIX_COLUMN_MAJOR
    /\ Len(rhs) = 7
    /\ asserts = "stopped"
    /\ \A n \in 0 .. 5 : Get("M23", m, n \div 3, n % 3) = T(rhs[n + 1])
    /\ m # old.m

\* C22: for every quaternion (x,y,z,w), QuaternionToMatrixTransposed writes
\* into out(r,c) the value QuaternionToMatrix writes into out(c,r), for all
\* r,c in 0..2, and both leave every entry of out outside that 3x3 block as
\* it was.
C22_QuaternionTransposedPair ==
    LET plain == QuaternionToMatrix(kind, old.out, m)
        transposed == QuaternionToMatrixTransposed(kind, old.out, m)
        inBlock(r, c) == r <= 2 /\ c <= 2
        frame(buf) ==
            \A r \in 0 .. Rows(kind) - 1, c \in 0 .. Cols(kind) - 1 :
                ~inBlock(r, c) => Get(kind, buf, r, c) = Get(kind, old.out, r, c)
    IN  /\ pc = "QuaternionToMatrix" =>
              /\ out = plain
              /\ \A r \in 0 .. 2, c \in 0 .. 2 :
                    Get(kind, transposed, r, c) = Get(kind, out, c, r)
              /\ frame(out)
              /\ m = old.m
        /\ pc = "QuaternionToMatrixTransposed" =>
              /\ out = transposed
              /\ \A r \in 0 .. 2, c \in 0 .. 2 :
                    Get(kind, out, r, c) = Get(kind, plain, c, r)
              /\ frame(out)
              /\ m = old.m

\* a quaternion with no zero component was converted by the transposed
\* routine into a SparseMatrix4T with row vectors: the result is not
\* symmetric and its row 3 is as before
C22_Witness ==
    /\ pc = "QuaternionToMatrixTransposed" /\ kind = "S" /\ GS_ROW_VECTORS
    /\ m.x # T(0) /\ m.y # T(0) /\ m.z # T(0) /\ m.w # T(0)
    /\ \A r \in 0 .. 2, c \in 0 .. 2 :
          r # c => Get("S", out, r, c) # Get("S", out, c, r)
    /\ \A c \in 0 .. 2 : Get("S", out, 3, c) = Get("S", old.out, 3, c)
    /\ \A r \in 0 .. 2, c \in 0 .. 2 :
          Get("S", out, r, c) # Get("S", old.out, r, c)

====
